---- MODULE Spec2Model ----
(***************************************************************************)
(* A model of src/lib.rs of args-kata-rust: the schema compiler            *)
(* (token_to_kv), the tokenizer (TokensIterator), the binder (parse) and   *)
(* the five value holders with their read accessors.                       *)
(*                                                                         *)
(* A Rust string is a sequence of characters, each a one-character TLA+    *)
(* string.  str::len and the slices of token_to_kv count UTF-8 bytes, so   *)
(* every character has a Width.  An Option is a sequence of length 0       *)
(* (None) or 1 (Some).                                                     *)
(***************************************************************************)
EXTENDS Integers, Sequences, FiniteSets, TLC

VARIABLES schema, input, pc, idx, args, cursor, result, pulled, ended

vars == <<schema, input, pc, idx, args, cursor, result, pulled, ended>>

----------------------------------------------------------------------------
(* Bounds of the model.                                                    *)

MaxInputLen == 6

MaxSchemaTokens == 2

MaxSchemaWords == 3

MaxWords == 5

----------------------------------------------------------------------------
(* Strings.                                                                *)

\* The only character of the model that UTF-8 encodes in more than one byte
\* (two bytes; TLC may print it differently).
WideChar == "é"

Width(c) == IF c = WideChar THEN 2 ELSE 1

RECURSIVE ByteLen(_)
ByteLen(s) == IF s = <<>> THEN 0 ELSE Width(Head(s)) + ByteLen(Tail(s))

Prefix(s, k) == SubSeq(s, 1, k)

\* The number of characters of s that end at or before byte offset b.
CharsWithin(s, b) == Cardinality({k \in 1..Len(s) : ByteLen(Prefix(s, k)) <= b})

IsCharBoundary(s, b) ==
    /\ b >= 0
    /\ b <= ByteLen(s)
    /\ ByteLen(Prefix(s, CharsWithin(s, b))) = b

\* &s[from..to] on byte offsets: the slice, or a panic when an offset is out
\* of range or falls inside a character.
ByteSlice(s, from, to) ==
    IF from <= to /\ IsCharBoundary(s, from) /\ IsCharBoundary(s, to)
    THEN [ok |-> TRUE, val |-> SubSeq(s, CharsWithin(s, from) + 1, CharsWithin(s, to))]
    ELSE [ok |-> FALSE, val |-> <<>>]

RECURSIVE Split(_, _)
Split(s, d) ==
    IF s = <<>> THEN << <<>> >>
    ELSE LET r == Split(Tail(s), d)
         IN  IF Head(s) = d
             THEN << <<>> >> \o r
             ELSE << <<Head(s)>> \o Head(r) >> \o Tail(r)

RECURSIVE Concat(_)
Concat(ss) == IF ss = <<>> THEN <<>> ELSE Head(ss) \o Concat(Tail(ss))

RECURSIVE Join(_, _)
Join(ss, sep) ==
    IF ss = <<>> THEN <<>>
    ELSE IF Len(ss) = 1 THEN Head(ss)
    ELSE Head(ss) \o sep \o Join(Tail(ss), sep)

RECURSIVE SelectNonEmpty(_)
SelectNonEmpty(ss) ==
    IF ss = <<>> THEN <<>>
    ELSE IF Head(ss) = <<>> THEN SelectNonEmpty(Tail(ss))
    ELSE <<Head(ss)>> \o SelectNonEmpty(Tail(ss))

IsWhite(c) == c = " "

RECURSIVE TrimStart(_)
TrimStart(s) == IF s # <<>> /\ IsWhite(Head(s)) THEN TrimStart(Tail(s)) ELSE s

RECURSIVE TrimEnd(_)
TrimEnd(s) ==
    IF s # <<>> /\ IsWhite(s[Len(s)]) THEN TrimEnd(Prefix(s, Len(s) - 1)) ELSE s

Trim(s) == TrimEnd(TrimStart(s))

UpperCase == <<"A","B","C","D","E","F","G","H","I","J","K","L","M",
               "N","O","P","Q","R","S","T","U","V","W","X","Y","Z">>

LowerCase == <<"a","b","c","d","e","f","g","h","i","j","k","l","m",
               "n","o","p","q","r","s","t","u","v","w","x","y","z">>

LowerChar(c) ==
    IF \E i \in 1..Len(UpperCase) : UpperCase[i] = c
    THEN LowerCase[CHOOSE i \in 1..Len(UpperCase) : UpperCase[i] = c]
    ELSE c

ToLowercase(s) == [i \in 1..Len(s) |-> LowerChar(s[i])]

Digits == <<"0","1","2","3","4","5","6","7","8","9">>

IsDigit(c) == \E i \in 1..Len(Digits) : Digits[i] = c

DigitVal(c) == (CHOOSE i \in 1..Len(Digits) : Digits[i] = c) - 1

RECURSIVE DigitsVal(_)
DigitsVal(s) ==
    IF s = <<>> THEN 0 ELSE DigitsVal(Prefix(s, Len(s) - 1)) * 10 + DigitVal(s[Len(s)])

\* str::parse::<isize>: an optional sign, then one or more decimal digits.
\* (The words of the model are far too short to overflow 64 bits.)
ParseIsize(s) ==
    LET signed == s # <<>> /\ Head(s) \in {"+", "-"}
        body   == IF signed THEN Tail(s) ELSE s
    IN  IF body = <<>> \/ \E i \in 1..Len(body) : ~IsDigit(body[i])
        THEN <<>>
        ELSE IF signed /\ Head(s) = "-" THEN << 0 - DigitsVal(body) >>
        ELSE << DigitsVal(body) >>

RECURSIVE NatToString(_)
NatToString(n) ==
    IF n < 10 THEN <<Digits[n + 1]>>
    ELSE NatToString(n \div 10) \o <<Digits[(n % 10) + 1]>>

IsizeToString(n) == IF n < 0 THEN <<"-">> \o NatToString(0 - n) ELSE NatToString(n)

StrTrue == <<"t","r","u","e">>

StrFalse == <<"f","a","l","s","e">>

\* str::parse::<bool>
ParseBool(s) ==
    IF s = StrTrue THEN <<TRUE>> ELSE IF s = StrFalse THEN <<FALSE>> ELSE <<>>

BoolToString(b) == IF b THEN StrTrue ELSE StrFalse

RECURSIVE MapParseIsize(_)
\* filter_map(|t| t.parse().ok()) over a sequence of strings
MapParseIsize(ss) ==
    IF ss = <<>> THEN <<>>
    ELSE ParseIsize(Head(ss)) \o MapParseIsize(Tail(ss))

----------------------------------------------------------------------------
(* The value holders (struct StringArg, BoolArg, NumberArg, StrArrayArg,   *)
(* NumberArrayArg) and trait Args.                                         *)

BoolArg(b) == [type |-> "BoolArg", val |-> b]

StringArg(o) == [type |-> "StringArg", val |-> o]

NumberArg(o) == [type |-> "NumberArg", val |-> o]

StrArrayArg(v) == [type |-> "StrArrayArg", val |-> v]

NumberArrayArg(v) == [type |-> "NumberArrayArg", val |-> v]

NoErr == [kind |-> "", text |-> <<>>]

InvalidSchema == [kind |-> "InvalidSchema", text |-> <<>>]

UnsupportedArgType(t) == [kind |-> "UnsupportedArgType", text |-> t]

UnknownArg(t) == [kind |-> "UnknownArg", text |-> t]

NumberFormatErr(t) == [kind |-> "NumberFormatErr", text |-> t]

SetOk(h) == [ok |-> TRUE, holder |-> h, err |-> NoErr]

SetErr(h, e) == [ok |-> FALSE, holder |-> h, err |-> e]

\* A Number-Array set that refuses a value that does not parse, as NumberArg does.
NumberArrayArgSetStrict(h, tokens) ==
    IF Len(MapParseIsize(tokens)) = Len(tokens)
    THEN SetOk(NumberArrayArg(h.val \o MapParseIsize(tokens)))
    ELSE SetErr(h, NumberFormatErr(Concat(tokens)))

NumberArrayArgSet(h, tokens) == SetOk(NumberArrayArg(h.val \o MapParseIsize(tokens)))

StrArrayArgSet(h, tokens) == SetOk(StrArrayArg(h.val \o tokens))

\* A String set that appends to the value already held instead of replacing it.
StringArgSetAppend(h, val) == SetOk(StringArg(<<Concat(h.val) \o Concat(val)>>))

StringArgSet(h, val) == SetOk(StringArg(<<Concat(val)>>))

\* A Boolean set that compares with "true" without lowering the case.
BoolArgSetCaseSensitive(h, values) ==
    IF Len(values) = 0 \/ Concat(values) = StrTrue
    THEN SetOk(BoolArg(TRUE))
    ELSE SetOk(BoolArg(FALSE))

BoolArgSet(h, values) ==
    IF Len(values) = 0 \/ ToLowercase(Concat(values)) = StrTrue
    THEN SetOk(BoolArg(TRUE))
    ELSE SetOk(BoolArg(FALSE))

NumberArgSet(h, val) ==
    IF ParseIsize(Concat(val)) # <<>>
    THEN SetOk(NumberArg(ParseIsize(Concat(val))))
    ELSE SetErr(h, NumberFormatErr(Concat(val)))

\* arg.set(token.values), dispatched on the holder behind the Box<dyn Args>
ArgsSet(h, values) ==
    CASE h.type = "BoolArg"        -> BoolArgSet(h, values)
      [] h.type = "StringArg"      -> StringArgSet(h, values)
      [] h.type = "NumberArg"      -> NumberArgSet(h, values)
      [] h.type = "StrArrayArg"    -> StrArrayArgSet(h, values)
      [] h.type = "NumberArrayArg" -> NumberArrayArgSet(h, values)

RECURSIVE MapIsizeToString(_)
MapIsizeToString(ns) ==
    IF ns = <<>> THEN <<>>
    ELSE <<IsizeToString(Head(ns))>> \o MapIsizeToString(Tail(ns))

\* get(): Option<String>
ArgsGet(h) ==
    CASE h.type = "BoolArg"        -> <<BoolToString(h.val)>>
      [] h.type = "StringArg"      -> h.val
      [] h.type = "NumberArg"      -> IF h.val = <<>> THEN <<>>
                                      ELSE <<IsizeToString(h.val[1])>>
      [] h.type = "StrArrayArg"    -> <<Join(h.val, <<",">>)>>
      [] h.type = "NumberArrayArg" -> <<Join(MapIsizeToString(h.val), <<",">>)>>

as_number(h) == IF ArgsGet(h) = <<>> THEN <<>> ELSE ParseIsize(ArgsGet(h)[1])

as_bool(h) == IF ArgsGet(h) = <<>> THEN <<>> ELSE ParseBool(ArgsGet(h)[1])

as_str_array(h) == IF ArgsGet(h) = <<>> THEN <<>> ELSE Split(ArgsGet(h)[1], ",")

as_num_array(h) ==
    IF ArgsGet(h) = <<>> THEN <<>> ELSE MapParseIsize(Split(ArgsGet(h)[1], ","))

----------------------------------------------------------------------------
(* The schema compiler.                                                    *)

KvOk(k, h) == [tag |-> "Ok", key |-> k, holder |-> h, err |-> NoErr]

KvErr(e) == [tag |-> "Err", key |-> <<>>, holder |-> BoolArg(FALSE), err |-> e]

KvPanic == [tag |-> "Panic", key |-> <<>>, holder |-> BoolArg(FALSE), err |-> NoErr]

token_to_kv(token) ==
    IF ByteLen(token) = 0 THEN KvErr(InvalidSchema)
    ELSE IF ByteLen(token) = 1 THEN KvOk(token, BoolArg(FALSE))
    ELSE LET arg_name == ByteSlice(token, 0, 1)
             suffix   == ByteSlice(token, 1, ByteLen(token))
         IN  IF ~arg_name.ok \/ ~suffix.ok THEN KvPanic
             ELSE IF suffix.val = <<"*">> THEN KvOk(arg_name.val, StringArg(<<>>))
             ELSE IF suffix.val = <<"#">> THEN KvOk(arg_name.val, NumberArg(<<>>))
             ELSE IF suffix.val = <<"[", "*", "]">>
                  THEN KvOk(arg_name.val, StrArrayArg(<<>>))
             ELSE IF suffix.val = <<"[", "#", "]">>
                  THEN KvOk(arg_name.val, NumberArrayArg(<<>>))
             ELSE KvErr(UnsupportedArgType(suffix.val))

\* schema.split(',').map(str::trim)
SchemaTokens(s) == [i \in 1..Len(Split(s, ",")) |-> Trim(Split(s, ",")[i])]

EmptyMap == <<>>

\* HashMap insert: a later pair with the same key replaces the earlier one
MapInsert(m, k, v) == [x \in (DOMAIN m) \cup {k} |-> IF x = k THEN v ELSE m[x]]

----------------------------------------------------------------------------
(* The tokenizer.                                                          *)

Token(m, v) == [modifier |-> m, values |-> v]

Skip(s, n) == IF n >= Len(s) THEN <<>> ELSE SubSeq(s, n + 1, Len(s))

SegmentToken(segment) ==
    Token(Split(segment, " ")[1], SelectNonEmpty(Skip(Split(segment, " "), 1)))

NextNone(cur) == [some |-> FALSE, cursor |-> cur, token |-> Token(<<>>, <<>>)]

NextSome(cur, t) == [some |-> TRUE, cursor |-> cur, token |-> t]

RECURSIVE ScanSegments(_, _)
\* the for loop of next() over the segments left, the cursor advanced once
\* for every segment visited
ScanSegments(segs, cur) ==
    IF segs = <<>> THEN NextNone(cur)
    ELSE IF Len(Head(segs)) > 0 THEN NextSome(cur + 1, SegmentToken(Head(segs)))
    ELSE ScanSegments(Tail(segs), cur + 1)

\* A next() that forgets to advance the cursor past the segment it returns.
TokensIteratorNextNoAdvance(inp, cur) ==
    LET n == ScanSegments(Skip(Split(inp, "-"), cur), cur)
    IN  IF n.some THEN NextSome(n.cursor - 1, n.token) ELSE n

TokensIteratorNext(inp, cur) == ScanSegments(Skip(Split(inp, "-"), cur), cur)

----------------------------------------------------------------------------
(* parse, one step per schema token and per pull of the tokenizer.         *)

Running == [tag |-> "Running", err |-> NoErr]

ResOk == [tag |-> "Ok", err |-> NoErr]

ResErr(e) == [tag |-> "Err", err |-> e]

ResPanic == [tag |-> "Panic", err |-> NoErr]

CompileStep ==
    /\ pc = "compile"
    /\ LET toks == SchemaTokens(schema)
           kv   == token_to_kv(toks[idx + 1])
       IN  /\ idx' = idx + 1
           /\ args' = IF kv.tag = "Ok" THEN MapInsert(args, kv.key, kv.holder)
                      ELSE EmptyMap
           /\ result' = IF kv.tag = "Ok" THEN result
                        ELSE IF kv.tag = "Err" THEN ResErr(kv.err)
                        ELSE ResPanic
           /\ pc' = IF kv.tag # "Ok" THEN "done"
                    ELSE IF idx + 1 = Len(toks) THEN "bind"
                    ELSE "compile"
    /\ UNCHANGED <<schema, input, cursor, pulled, ended>>

BindStep ==
    /\ pc = "bind"
    /\ LET n == TokensIteratorNext(input, cursor)
           m == n.token.modifier
           known == n.some /\ m \in DOMAIN args
           r == IF known THEN ArgsSet(args[m], n.token.values)
                ELSE SetErr(BoolArg(FALSE), UnknownArg(m))
       IN  /\ cursor' = n.cursor
           /\ ended' = ~n.some
           /\ pulled' = IF n.some THEN Append(pulled, n.token) ELSE pulled
           /\ args' = IF ~n.some THEN args
                      ELSE IF r.ok THEN [args EXCEPT ![m] = r.holder]
                      ELSE EmptyMap
           /\ result' = IF ~n.some THEN ResOk
                        ELSE IF r.ok THEN result
                        ELSE ResErr(r.err)
           /\ pc' = IF n.some /\ r.ok THEN "bind" ELSE "done"
    /\ UNCHANGED <<schema, input, idx>>

\* One call of TokensIterator::next on an iterator of its own.
Pull ==
    /\ pc = "iter"
    /\ LET n == TokensIteratorNext(input, cursor)
       IN  /\ cursor' = n.cursor
           /\ ended' = ~n.some
           /\ pulled' = IF n.some THEN Append(pulled, n.token) ELSE pulled
    /\ UNCHANGED <<schema, input, pc, idx, args, result>>

----------------------------------------------------------------------------
(* Inputs.                                                                 *)

SeqsUpTo(S, n) == UNION {[1..k -> S] : k \in 0..n}

JoinedUpTo(S, n, sep) == {Join(ws, sep) : ws \in SeqsUpTo(S, n)}

TokChars == {"-", " ", "a", "b"}

TokInputs == SeqsUpTo(TokChars, MaxInputLen)

SchemaVocab ==
    { <<>>, <<"l">>, <<"d", "*">>, <<" ", "p", "#">>, <<"s", "[", "*", "]">>,
      <<"n", "[", "#", "]">>, <<"p", "!">>, <<WideChar>>, <<"d", WideChar>>,
      <<"l", "*">> }

Schemas == JoinedUpTo(SchemaVocab, MaxSchemaTokens, <<",">>)

SchemaWords == { <<"-", "l">>, <<"-", "p">>, <<"-", "s">>, <<"-", "z">>, <<"x">>, <<"1">> }

SchemaInputs == JoinedUpTo(SchemaWords, MaxSchemaWords, <<" ">>)

InitWith(S, I) ==
    /\ schema \in S
    /\ input \in I
    /\ pc = "compile"
    /\ idx = 0
    /\ args = EmptyMap
    /\ cursor = 0
    /\ result = Running
    /\ pulled = <<>>
    /\ ended = FALSE

Init == InitWith(Schemas, SchemaInputs)

InitTok ==
    /\ schema = <<>>
    /\ input \in TokInputs
    /\ pc = "iter"
    /\ idx = 0
    /\ args = EmptyMap
    /\ cursor = 0
    /\ result = Running
    /\ pulled = <<>>
    /\ ended = FALSE

RebindSchemas ==
    { <<"a", "*", ",", "b", "[", "*", "]">>,
      <<"a", "#", ",", "b", "[", "#", "]">>,
      <<"a", ",", "b", "*">>,
      <<"a", "[", "#", "]", ",", "a", "[", "*", "]", ",", "b">> }

RebindWords == { <<"-", "a">>, <<"-", "b">>, <<"x">>, <<"1">> }

InitRebind == InitWith(RebindSchemas, JoinedUpTo(RebindWords, MaxWords, <<" ">>))

NumArrSchemas == { <<"a", "[", "#", "]">>, <<"b", "#", ",", "a", "[", "#", "]">> }

NumArrWords == { <<"-", "a">>, <<"1">>, <<"x">>, <<"+", "2">>, <<"0", "7">> }

InitNumArr == InitWith(NumArrSchemas, JoinedUpTo(NumArrWords, MaxWords, <<" ">>))

BoolSchemas == { <<"a">>, <<"b", "*", ",", "a">> }

BoolWords == { <<"-", "a">>, <<"T", "r", "u", "e">>, <<"t", "r">>, <<"U", "E">>, <<"x">> }

InitBool == InitWith(BoolSchemas, JoinedUpTo(BoolWords, MaxWords, <<" ">>))

StrArrSchemas == { <<"a", "[", "*", "]">>, <<"a", "[", "*", "]", ",", "b">> }

StrArrWords == { <<"-", "a">>, <<"-", "b">>, <<"x">>, <<"c", ",", "d">> }

InitStrArr == InitWith(StrArrSchemas, JoinedUpTo(StrArrWords, MaxWords, <<" ">>))

Next == CompileStep \/ BindStep

NextTok == Pull

Spec == Init /\ [][Next]_vars

SpecTok == InitTok /\ [][NextTok]_vars

SpecRebind == InitRebind /\ [][Next]_vars

SpecNumArr == InitNumArr /\ [][Next]_vars

SpecBool == InitBool /\ [][Next]_vars

SpecStrArr == InitStrArr /\ [][Next]_vars

----------------------------------------------------------------------------
(* What the claims are stated with.                                        *)

CountChar(s, c) == Cardinality({i \in 1..Len(s) : s[i] = c})

\* The position of the k-th '-' of inp; 0 for k = 0, Len(inp) + 1 past the last.
DashPos(inp, k) ==
    IF k = 0 THEN 0
    ELSE IF k > CountChar(inp, "-") THEN Len(inp) + 1
    ELSE CHOOSE p \in 1..Len(inp) :
            /\ inp[p] = "-"
            /\ Cardinality({q \in 1..p : inp[q] = "-"}) = k

\* The k-th '-'-delimited segment of inp, k in 1..(number of '-') + 1.
SegmentAt(inp, k) ==
    IF DashPos(inp, k - 1) + 1 > DashPos(inp, k) - 1 THEN <<>>
    ELSE SubSeq(inp, DashPos(inp, k - 1) + 1, DashPos(inp, k) - 1)

RECURSIVE TokensOfSegments(_, _)
\* The tokens of the non-empty segments among the first k, in input order.
TokensOfSegments(inp, k) ==
    IF k = 0 THEN <<>>
    ELSE IF SegmentAt(inp, k) = <<>> THEN TokensOfSegments(inp, k - 1)
    ELSE Append(TokensOfSegments(inp, k - 1), SegmentToken(SegmentAt(inp, k)))

IsPrefixOf(s, t) == Len(s) <= Len(t) /\ s = SubSeq(t, 1, Len(s))

C10_State ==
    /\ cursor \in 0..(CountChar(input, "-") + 1)
    /\ pulled = TokensOfSegments(input, cursor)
    /\ Len(pulled) <= CountChar(input, "-") + 1
    /\ ended => cursor = CountChar(input, "-") + 1

C10_Step ==
    /\ cursor' >= cursor
    /\ IsPrefixOf(pulled, pulled')
    /\ Len(pulled') <= Len(pulled) + 1
    /\ ended' <=> pulled' = pulled
    /\ ~ended' => cursor' > cursor
    /\ ended => ended' /\ cursor' = cursor

\* C10: the token sequence is finite and forward-only.  The cursor never
\* decreases and never exceeds the number of '-'-delimited segments; the tokens
\* pulled so far are exactly those of the non-empty segments among the first
\* `cursor` segments, in input order and each once, so there are at most
\* (number of '-') + 1 of them; every pull either yields one more token or
\* signals the end; and once a pull has signalled the end, every later pull
\* signals the end again and yields nothing.
C10_FiniteForwardOnly == [](pc = "iter" => C10_State) /\ [][pc = "iter" => C10_Step]_vars

\* The end was signalled after two tokens, with an empty segment skipped.
C10_Witness ==
    /\ pc = "iter"
    /\ ended
    /\ Len(pulled) = 2
    /\ cursor = 4

Words(inp) == SelectNonEmpty(Split(inp, " "))

RECURSIVE WordTokensOf(_)
\* The tokens of a sequence of words by the input grammar: a word that begins
\* with '-' starts a segment and names its modifier, the words that follow, up
\* to the next such word, are its values; words before the first segment
\* belong to none.
WordTokensOf(ws) ==
    IF ws = <<>> THEN <<>>
    ELSE LET before == WordTokensOf(SubSeq(ws, 1, Len(ws) - 1))
             w      == ws[Len(ws)]
         IN  IF Head(w) = "-" THEN Append(before, Token(Tail(w), <<>>))
             ELSE IF before = <<>> THEN <<>>
             ELSE [before EXCEPT ![Len(before)].values = Append(@, w)]

FlagWordsPlain(inp) ==
    /\ inp # <<>>
    /\ Head(inp) = "-"
    /\ \A i \in 1..Len(Words(inp)) :
          LET w == Words(inp)[i]
          IN  Head(w) = "-" => Len(w) >= 2 /\ CountChar(w, "-") = 1

\* C1: a flag segment starts only at a word that begins with '-'; its modifier
\* is what follows the '-' and its values are the following words up to the
\* next word that begins with '-'; a '-' inside a word starts no segment.
\* Stated for the inputs that begin with a flag word and whose flag words are
\* a '-' followed by a name without '-'.
C1_SegmentsStartAtDashWords ==
    (pc = "iter" /\ ended /\ FlagWordsPlain(input))
        => pulled = WordTokensOf(Words(input))

RECURSIVE TokenizeFrom(_, _)
\* Every token the iterator yields from cursor cur on.
TokenizeFrom(inp, cur) ==
    LET n == TokensIteratorNext(inp, cur)
    IN  IF n.some THEN <<n.token>> \o TokenizeFrom(inp, n.cursor) ELSE <<>>

Tokenize(inp) == TokenizeFrom(inp, 0)

\* inp from its first '-' on (nothing when it has none).
FromFirstDash(inp) ==
    IF CountChar(inp, "-") = 0 THEN <<>>
    ELSE SubSeq(inp, DashPos(inp, 1), Len(inp))

\* C9: text that precedes the first '-' of the input yields no token: the
\* tokens of the input are those of the input without that prefix.
C9_LeadingTextIgnored ==
    (pc = "iter" /\ ended) => pulled = Tokenize(FromFirstDash(input))

----------------------------------------------------------------------------
(* The schema grammar as the specification words it, on characters.        *)

GrammarKv(token) ==
    IF Len(token) = 0 THEN KvErr(InvalidSchema)
    ELSE IF Len(token) = 1 THEN KvOk(token, BoolArg(FALSE))
    ELSE IF Tail(token) = <<"*">> THEN KvOk(<<Head(token)>>, StringArg(<<>>))
    ELSE IF Tail(token) = <<"#">> THEN KvOk(<<Head(token)>>, NumberArg(<<>>))
    ELSE IF Tail(token) = <<"[", "*", "]">> THEN KvOk(<<Head(token)>>, StrArrayArg(<<>>))
    ELSE IF Tail(token) = <<"[", "#", "]">> THEN KvOk(<<Head(token)>>, NumberArrayArg(<<>>))
    ELSE KvErr(UnsupportedArgType(Tail(token)))

\* The schema tokens that the grammar refuses, by position.
BadTokens(s) == {i \in 1..Len(SchemaTokens(s)) : GrammarKv(SchemaTokens(s)[i]).tag = "Err"}

ValidSchema(s) == BadTokens(s) = {}

FirstOf(S) == CHOOSE i \in S : \A j \in S : i <= j

LastOf(S) == CHOOSE i \in S : \A j \in S : j <= i

\* The flags a valid schema declares, and the holder each starts with (the
\* last declaration of a flag is the one that counts).
DeclaredFlags(s) == {GrammarKv(SchemaTokens(s)[i]).key : i \in 1..Len(SchemaTokens(s))}

DeclaredHolder(s, f) ==
    GrammarKv(SchemaTokens(s)[
        LastOf({i \in 1..Len(SchemaTokens(s)) : GrammarKv(SchemaTokens(s)[i]).key = f})
    ]).holder

\* C3: every trimmed schema token compiles by the grammar: an empty token to
\* InvalidSchema, a one-character token to a Boolean holder (false) keyed by
\* it, a longer one to the holder its suffix selects keyed by its first
\* character, any other suffix to UnsupportedArgType(suffix); the compiler
\* ends in no other way.  (Read right after the idx-th token was compiled.)
C3_CompilesByGrammar ==
    (pc # "iter" /\ idx >= 1 /\ cursor = 0) =>
        LET g == GrammarKv(SchemaTokens(schema)[idx])
        IN  IF g.tag = "Err"
            THEN pc = "done" /\ result = ResErr(g.err)
            ELSE /\ result = Running
                 /\ pc \in {"compile", "bind"}
                 /\ g.key \in DOMAIN args
                 /\ args[g.key] = g.holder

IsAscii(s) == \A i \in 1..Len(s) : Width(s[i]) = 1

ReadsDefault(h) ==
    CASE h.type = "BoolArg"        -> as_bool(h) = <<FALSE>>
      [] h.type = "StringArg"      -> ArgsGet(h) = <<>>
      [] h.type = "NumberArg"      -> ArgsGet(h) = <<>>
      [] h.type = "StrArrayArg"    -> Len(as_str_array(h)) = 0 /\ Len(as_num_array(h)) = 0
      [] h.type = "NumberArrayArg" -> Len(as_str_array(h)) = 0 /\ Len(as_num_array(h)) = 0

\* C4: for a valid schema, parse(schema, "") succeeds and every declared flag
\* reads as its default: as_bool() false, get() absent for String and Number,
\* zero elements through as_str_array() and as_num_array() for the arrays.
\* (Stated for the schemas of one-byte characters.)
C4_EmptyInputDefaults ==
    (pc = "done" /\ input = <<>> /\ ValidSchema(schema) /\ IsAscii(schema)) =>
        /\ result = ResOk
        /\ DOMAIN args = DeclaredFlags(schema)
        /\ \A f \in DOMAIN args :
              /\ args[f].type = DeclaredHolder(schema, f).type
              /\ ReadsDefault(args[f])

\* The binding error of token t against a valid schema s, NoErr when it binds.
BindError(s, t) ==
    IF t.modifier \notin DeclaredFlags(s) THEN UnknownArg(t.modifier)
    ELSE IF /\ DeclaredHolder(s, t.modifier).type = "NumberArg"
            /\ ParseIsize(Concat(t.values)) = <<>>
         THEN NumberFormatErr(Concat(t.values))
    ELSE NoErr

FailingTokens(s, inp) ==
    {j \in 1..Len(Tokenize(inp)) : BindError(s, Tokenize(inp)[j]) # NoErr}

\* What parse returns when it returns the first error met, schema tokens
\* first and input tokens second.
FirstError(s, inp) ==
    IF ~ValidSchema(s)
    THEN ResErr(GrammarKv(SchemaTokens(s)[FirstOf(BadTokens(s))]).err)
    ELSE IF FailingTokens(s, inp) # {}
    THEN ResErr(BindError(s, Tokenize(inp)[FirstOf(FailingTokens(s, inp))]))
    ELSE ResOk

C2_Outcome ==
    /\ result = FirstError(schema, input)
    /\ result.tag = "Err" => args = EmptyMap
    /\ (result.tag = "Err" /\ ValidSchema(schema))
          => Len(pulled) = FirstOf(FailingTokens(schema, input))

\* C2: parse returns the first error met, schema tokens left to right and then
\* input tokens left to right: a schema error whatever the input is, otherwise
\* the UnknownArg or NumberFormatErr of the first input token that does not
\* bind, with no later token processed and no mapping returned.
C2_FirstErrorWins == pc = "done" => C2_Outcome

\* The same on the schemas of one-byte characters, which TLC finds to hold.
C2_FirstErrorWinsAscii == (pc = "done" /\ IsAscii(schema)) => C2_Outcome

----------------------------------------------------------------------------
(* Binding.                                                                *)

\* The bind loop is running, or parse has returned the mapping.
Binding == pc \in {"bind", "done"} /\ result.tag \in {"Running", "Ok"}

\* The tokens bound so far that name flag f, in input order.
TokensNaming(f) == SelectSeq(pulled, LAMBDA t : t.modifier = f)

RECURSIVE AllValues(_)
\* The values of a sequence of tokens, in order.
AllValues(ts) == IF ts = <<>> THEN <<>> ELSE Head(ts).values \o AllValues(Tail(ts))

EqualsTrueIgnoringCase(s) ==
    /\ Len(s) = 4
    /\ s[1] \in {"t", "T"}
    /\ s[2] \in {"r", "R"}
    /\ s[3] \in {"u", "U"}
    /\ s[4] \in {"e", "E"}

\* The integer a word of the model's vocabularies stands for, if any.
IntegerOfWord(w) ==
    CASE w = <<"1">>      -> <<1>>
      [] w = <<"+", "2">> -> <<2>>
      [] w = <<"0", "7">> -> <<7>>
      [] OTHER            -> <<>>

RECURSIVE IntegersOfWords(_)
IntegersOfWords(ws) ==
    IF ws = <<>> THEN <<>> ELSE IntegerOfWord(Head(ws)) \o IntegersOfWords(Tail(ws))

\* What the holder of a flag holds after the tokens ts, all naming it, were
\* bound to a fresh holder of type ty.
HeldAfter(ty, ts) ==
    CASE ty = "StringArg" ->
            IF ts = <<>> THEN <<>> ELSE <<Concat(ts[Len(ts)].values)>>
      [] ty = "NumberArg" ->
            IF ts = <<>> THEN <<>> ELSE ParseIsize(Concat(ts[Len(ts)].values))
      [] ty = "BoolArg" ->
            /\ ts # <<>>
            /\ \/ ts[Len(ts)].values = <<>>
               \/ EqualsTrueIgnoringCase(Concat(ts[Len(ts)].values))
      [] ty = "StrArrayArg" -> AllValues(ts)
      [] ty = "NumberArrayArg" -> IntegersOfWords(AllValues(ts))

\* C5: a scalar holder ends holding the value of the last binding of its flag,
\* an array holder the concatenation, in token order, of what every binding of
\* its flag contributed; the holder of a flag depends only on the tokens that
\* name it.
C5_RebindPerFlag ==
    Binding =>
        /\ DOMAIN args = DeclaredFlags(schema)
        /\ \A f \in DOMAIN args :
              /\ args[f].type = DeclaredHolder(schema, f).type
              /\ args[f].val = HeldAfter(args[f].type, TokensNaming(f))

\* A flag bound twice to different values, with another flag bound in between.
C5_Witness ==
    /\ pc = "done"
    /\ result = ResOk
    /\ Len(pulled) = 3
    /\ pulled[1].modifier = pulled[3].modifier
    /\ pulled[1].modifier # pulled[2].modifier
    /\ pulled[1].values # <<>>
    /\ pulled[3].values # <<>>
    /\ pulled[1].values # pulled[3].values

\* C6: as_str_array() of a String-Array flag is exactly the sequence of words
\* bound to it, words with a ',' included, and get() is their comma-joined
\* text.  (Stated for a flag with at least one word bound.)
C6_StrArrayRoundTrip ==
    Binding =>
        \A f \in DOMAIN args :
            (args[f].type = "StrArrayArg" /\ AllValues(TokensNaming(f)) # <<>>) =>
                /\ as_str_array(args[f]) = AllValues(TokensNaming(f))
                /\ ArgsGet(args[f]) = <<Join(AllValues(TokensNaming(f)), <<",">>)>>

LastNamesA(ty) ==
    /\ pulled # <<>>
    /\ pulled[Len(pulled)].modifier \in DeclaredFlags(schema)
    /\ DeclaredHolder(schema, pulled[Len(pulled)].modifier).type = ty

\* C7: binding a Number-Array flag never fails, and as_num_array() is the
\* order-preserving subsequence of the integer-valued words bound to the flag.
C7_NumArrayDropsNonNumbers ==
    /\ (pc \in {"bind", "done"} /\ LastNamesA("NumberArrayArg")) => result.tag # "Err"
    /\ Binding =>
          \A f \in DOMAIN args :
              args[f].type = "NumberArrayArg" =>
                  as_num_array(args[f]) = IntegersOfWords(AllValues(TokensNaming(f)))

\* Two bindings of a Number-Array flag, a word that is no integer among them.
C7_Witness ==
    /\ pc = "done"
    /\ result = ResOk
    /\ Len(pulled) = 2
    /\ pulled[1].values = << <<"1">>, <<"x">> >>
    /\ pulled[2].values = << <<"+", "2">> >>
    /\ as_num_array(args[<<"a">>]) = <<1, 2>>

\* C8: binding a Boolean flag never fails; afterwards as_bool() is true exactly
\* when the token had no values or its values, concatenated, equal "true"
\* ignoring case, and false for any other text; an unbound Boolean flag reads
\* false.
C8_BoolTruthiness ==
    /\ (pc \in {"bind", "done"} /\ LastNamesA("BoolArg")) => result.tag # "Err"
    /\ Binding =>
          \A f \in DOMAIN args :
              args[f].type = "BoolArg" =>
                  as_bool(args[f]) = << HeldAfter("BoolArg", TokensNaming(f)) >>

\* A Boolean flag reset to false by "x" and then set by the values "tr" "UE".
C8_Witness ==
    /\ pc = "done"
    /\ result = ResOk
    /\ Len(pulled) = 2
    /\ pulled[1].values = << <<"x">> >>
    /\ pulled[2].values = << <<"t", "r">>, <<"U", "E">> >>
    /\ as_bool(args[<<"a">>]) = <<TRUE>>

====
